---- MODULE Spec2Model ----
(***************************************************************************)
(* A model of lazy-socket's raw layer (src/raw/unix.rs, src/raw/windows.rs) *)
(* as a state machine: the Socket wrapper objects of one process, the      *)
(* kernel's table of open handles, the address codec working on the bytes  *)
(* of a native sockaddr buffer, and select.  The operating system is the   *)
(* environment: every return value of an OS call is chosen                 *)
(* nondeterministically among the values the call can produce.             *)
(***************************************************************************)
EXTENDS Integers, Naturals, Sequences, FiniteSets, TLC

VARIABLES
    platform,   \* build target: "unix" (raw/unix.rs) or "windows" (raw/windows.rs)
    endian,     \* byte order of the host the build runs on
    cAddr,      \* codec: the generic address last handed to get_raw_addr
    cStorage,   \* codec: the bytes of the native sockaddr_storage buffer
    cLen,       \* codec: the length reported with the buffer
    cFrom,      \* codec: who filled the buffer: "none", "encode" or "os"
    cRes,       \* codec: the result of the last sockaddr_to_addr
    open,       \* kernel: the handles that name an open socket of the process
    live,       \* the live Socket values: instance -> its field `inner`
    last,       \* the last operation: its arguments, its OS calls, in order, with
                \* their arguments, and what it returned
    once,       \* windows.rs `static INIT: Once`: "INCOMPLETE", "RUNNING" or "COMPLETE"
    inits,      \* how many times the closure given to INIT.call_once has run
    pc,         \* thread -> where it is inside Socket::new, or "idle"
    conn,       \* kernel: handle -> "connecting" or "connected", for the handles
                \* a non-blocking connect has been started on
    pending,    \* the select the process is blocked in, or NoPending
    elapsed,    \* whether the timeout of the pending select has run out
    net         \* kernel and loopback network: the local address of each handle,
                \* the data queued for it, the connections waiting at a
                \* listener, and the caller's buffer after the last receive

codecVars == <<cAddr, cStorage, cLen, cFrom, cRes>>
sockVars == <<open, live, last>>
buildVars == <<platform, endian>>
onceVars == <<once, inits, pc>>
waitVars == <<conn, pending, elapsed>>

-----------------------------------------------------------------------------
(* Build targets *)

Platforms == {"unix", "windows"}
LE == "little"
BE == "big"
\* Windows targets are little-endian; a unix target may be either.
EndiansOf(p) == IF p = "windows" THEN {LE} ELSE {LE, BE}

-----------------------------------------------------------------------------
(* Native constants *)

AF_UNSPEC == 0
AF_UNIX == 1
AF_INET == 2
AF_INET6_UNIX == 10
AF_INET6_WINDOWS == 23
AF_INET6(p) == IF p = "windows" THEN AF_INET6_WINDOWS ELSE AF_INET6_UNIX

\* mem::size_of of the native structures
SIZEOF_SOCKADDR_IN == 16
SIZEOF_SOCKADDR_IN6 == 28
SIZEOF_SOCKADDR_STORAGE == 128

Byte == 0..255

-----------------------------------------------------------------------------
(* Integer <-> memory, as the host does it *)

\* u16::swap_bytes
swap_bytes16(x) == (x % 256) * 256 + (x \div 256)

\* u16::to_be: swaps on a little-endian target, identity on a big-endian one
to_be16(x, e) == IF e = LE THEN swap_bytes16(x) ELSE x

\* reading a u16 field from two bytes of memory, in host order
load_u16(b, e) == IF e = LE THEN b[1] + 256 * b[2] ELSE 256 * b[1] + b[2]

\* writing a u16 field to memory, in host order
store_u16(x, e) == IF e = LE THEN <<x % 256, x \div 256>> ELSE <<x \div 256, x % 256>>

\* A u32 is kept as its two 16-bit halves <<high, low>> (its value is
\* high * 65536 + low), every number staying within TLC's 32-bit integers.
U32(hi, lo) == <<hi, lo>>

\* reading a u32 field from four bytes of memory, in host order
load_u32(b, e) ==
    IF e = LE THEN U32(b[3] + 256 * b[4], b[1] + 256 * b[2])
    ELSE U32(256 * b[1] + b[2], 256 * b[3] + b[4])

\* writing a u32 field to memory, in host order
store_u32(x, e) ==
    IF e = LE
    THEN <<x[2] % 256, x[2] \div 256, x[1] % 256, x[1] \div 256>>
    ELSE <<x[1] \div 256, x[1] % 256, x[2] \div 256, x[2] % 256>>

Zeros(n) == [i \in 1..n |-> 0]

\* mem::zeroed::<sockaddr_storage>().  The model keeps the first
\* SIZEOF_SOCKADDR_IN6 bytes of the buffer, the part the largest native
\* structure covers: no code reads a byte past it.
ZeroStorage == Zeros(SIZEOF_SOCKADDR_IN6)

\* the first n bytes of storage s replaced by the bytes b
Overwrite(s, b) == [i \in 1..Len(s) |-> IF i <= Len(b) THEN b[i] ELSE s[i]]

-----------------------------------------------------------------------------
(* Generic addresses (std::net::SocketAddr) *)

NoIp == <<>>
V4(ip, port) ==
    [fam |-> "V4", ip |-> ip, port |-> port, flowinfo |-> <<0, 0>>, scope_id |-> <<0, 0>>]
V6(ip, port, flowinfo, scope_id) ==
    [fam |-> "V6", ip |-> ip, port |-> port, flowinfo |-> flowinfo, scope_id |-> scope_id]
NoAddr ==
    [fam |-> "none", ip |-> NoIp, port |-> 0, flowinfo |-> <<0, 0>>, scope_id |-> <<0, 0>>]

\* The bytes of a std SocketAddrV4 / SocketAddrV6 value.  get_raw_addr hands
\* the OS a pointer to the std value itself, so what the OS reads is the
\* representation std gives it: a sockaddr_in / sockaddr_in6 whose port field
\* holds hton(port) = port.to_be() and whose flowinfo and scope_id fields hold
\* the values unconverted.
SocketAddr_repr(a, e, p) ==
    IF a.fam = "V4"
    THEN store_u16(AF_INET, e) \o store_u16(to_be16(a.port, e), e) \o a.ip \o Zeros(8)
    ELSE store_u16(AF_INET6(p), e) \o store_u16(to_be16(a.port, e), e)
         \o store_u32(a.flowinfo, e) \o a.ip \o store_u32(a.scope_id, e)

\* get_raw_addr: (pointer to the address value, mem::size_of_val of it)
get_raw_addr(a, e, p) ==
    [bytes |-> SocketAddr_repr(a, e, p),
     len   |-> IF a.fam = "V4" THEN SIZEOF_SOCKADDR_IN ELSE SIZEOF_SOCKADDR_IN6]

-----------------------------------------------------------------------------
(* Results of operations (io::Result, or a panic) *)

Ok(n, addr) == [kind |-> "Ok", n |-> n, code |-> 0, addr |-> addr]
\* io::Error::last_os_error(): an error carrying the raw OS code
OsErr(code) == [kind |-> "OsErr", n |-> 0, code |-> code, addr |-> NoAddr]
\* io::Error::new(io::ErrorKind::InvalidInput, ..): no OS code
InvalidInput == [kind |-> "InvalidInput", n |-> 0, code |-> 0, addr |-> NoAddr]
\* a failed assert! / expect: the thread panics, nothing is returned
Panic == [kind |-> "Panic", n |-> 0, code |-> 0, addr |-> NoAddr]
\* a () that carries no result (Drop)
Unit == [kind |-> "Unit", n |-> 0, code |-> 0, addr |-> NoAddr]
NoRes == [kind |-> "none", n |-> 0, code |-> 0, addr |-> NoAddr]

-----------------------------------------------------------------------------
(* sockaddr_to_addr *)

\* variant: the IPv6 flow-info is run through to_be() like the port
sockaddr_to_addr_swapped_flowinfo(storage, len, e, p) ==
    LET ss_family == load_u16(SubSeq(storage, 1, 2), e)
        fl == load_u32(SubSeq(storage, 5, 8), e)
    IN  IF ss_family = AF_INET
        THEN IF ~(len >= SIZEOF_SOCKADDR_IN)
             THEN Panic
             ELSE Ok(0, V4(SubSeq(storage, 5, 8),
                           to_be16(load_u16(SubSeq(storage, 3, 4), e), e)))
        ELSE IF ss_family = AF_INET6(p)
        THEN IF ~(len >= SIZEOF_SOCKADDR_IN6)
             THEN Panic
             ELSE Ok(0, V6(SubSeq(storage, 9, 24),
                           to_be16(load_u16(SubSeq(storage, 3, 4), e), e),
                           IF e = LE THEN U32(swap_bytes16(fl[2]), swap_bytes16(fl[1])) ELSE fl,
                           load_u32(SubSeq(storage, 25, 28), e)))
        ELSE InvalidInput

\* variant: the port is taken as the host reads it, without to_be()
sockaddr_to_addr_host_port(storage, len, e, p) ==
    LET ss_family == load_u16(SubSeq(storage, 1, 2), e)
    IN  IF ss_family = AF_INET
        THEN IF ~(len >= SIZEOF_SOCKADDR_IN)
             THEN Panic
             ELSE Ok(0, V4(SubSeq(storage, 5, 8), load_u16(SubSeq(storage, 3, 4), e)))
        ELSE IF ss_family = AF_INET6(p)
        THEN IF ~(len >= SIZEOF_SOCKADDR_IN6)
             THEN Panic
             ELSE Ok(0, V6(SubSeq(storage, 9, 24),
                           load_u16(SubSeq(storage, 3, 4), e),
                           load_u32(SubSeq(storage, 5, 8), e),
                           load_u32(SubSeq(storage, 25, 28), e)))
        ELSE InvalidInput

\* variant: the IPv4 address is read as a host-order u32 and its bytes taken
\* most significant first (Ipv4Addr::from(s_addr))
sockaddr_to_addr_u32_ip(storage, len, e, p) ==
    LET ss_family == load_u16(SubSeq(storage, 1, 2), e)
        a == SubSeq(storage, 5, 8)
    IN  IF ss_family = AF_INET
        THEN IF ~(len >= SIZEOF_SOCKADDR_IN)
             THEN Panic
             ELSE Ok(0, V4(IF e = LE THEN <<a[4], a[3], a[2], a[1]>> ELSE a,
                           to_be16(load_u16(SubSeq(storage, 3, 4), e), e)))
        ELSE IF ss_family = AF_INET6(p)
        THEN IF ~(len >= SIZEOF_SOCKADDR_IN6)
             THEN Panic
             ELSE Ok(0, V6(SubSeq(storage, 9, 24),
                           to_be16(load_u16(SubSeq(storage, 3, 4), e), e),
                           load_u32(SubSeq(storage, 5, 8), e),
                           load_u32(SubSeq(storage, 25, 28), e)))
        ELSE InvalidInput

\* variant: an unknown family tag yields the zeroed buffer read as IPv4
sockaddr_to_addr_defaulting(storage, len, e, p) ==
    LET ss_family == load_u16(SubSeq(storage, 1, 2), e)
    IN  IF ss_family = AF_INET6(p)
        THEN IF ~(len >= SIZEOF_SOCKADDR_IN6)
             THEN Panic
             ELSE Ok(0, V6(SubSeq(storage, 9, 24),
                           to_be16(load_u16(SubSeq(storage, 3, 4), e), e),
                           load_u32(SubSeq(storage, 5, 8), e),
                           load_u32(SubSeq(storage, 25, 28), e)))
        ELSE IF ss_family # AF_INET \/ len >= SIZEOF_SOCKADDR_IN
             THEN Ok(0, V4(SubSeq(storage, 5, 8),
                           to_be16(load_u16(SubSeq(storage, 3, 4), e), e)))
             ELSE Panic

\* variant: the two assert!(len >= size_of) lines are missing
sockaddr_to_addr_unchecked_len(storage, len, e, p) ==
    LET ss_family == load_u16(SubSeq(storage, 1, 2), e)
    IN  IF ss_family = AF_INET
        THEN Ok(0, V4(SubSeq(storage, 5, 8),
                      to_be16(load_u16(SubSeq(storage, 3, 4), e), e)))
        ELSE IF ss_family = AF_INET6(p)
        THEN Ok(0, V6(SubSeq(storage, 9, 24),
                      to_be16(load_u16(SubSeq(storage, 3, 4), e), e),
                      load_u32(SubSeq(storage, 5, 8), e),
                      load_u32(SubSeq(storage, 25, 28), e)))
        ELSE InvalidInput

sockaddr_to_addr(storage, len, e, p) ==
    LET ss_family == load_u16(SubSeq(storage, 1, 2), e)
    IN  IF ss_family = AF_INET
        THEN IF ~(len >= SIZEOF_SOCKADDR_IN)
             THEN Panic
             ELSE Ok(0, V4(SubSeq(storage, 5, 8),
                           to_be16(load_u16(SubSeq(storage, 3, 4), e), e)))
        ELSE IF ss_family = AF_INET6(p)
        THEN IF ~(len >= SIZEOF_SOCKADDR_IN6)
             THEN Panic
             ELSE Ok(0, V6(SubSeq(storage, 9, 24),
                           to_be16(load_u16(SubSeq(storage, 3, 4), e), e),
                           load_u32(SubSeq(storage, 5, 8), e),
                           load_u32(SubSeq(storage, 25, 28), e)))
        ELSE InvalidInput

-----------------------------------------------------------------------------
(* Inputs of the codec *)

Ip4s == {<<0, 0, 0, 0>>, <<127, 0, 0, 1>>, <<1, 2, 3, 4>>, <<255, 255, 255, 255>>}
Ports == {0, 1, 255, 256, 1666, 5666, 65535}
Ip6Zero == Zeros(16)
Ip6Loopback == [i \in 1..16 |-> IF i = 16 THEN 1 ELSE 0]
Ip6Mixed == [i \in 1..16 |-> 16 * i + i]
Ip6s == {Ip6Zero, Ip6Loopback, Ip6Mixed}
U32s == {U32(0, 0), U32(0, 1), U32(258, 772), U32(65535, 65535)}

Addrs ==
    {V4(ip, port) : ip \in Ip4s, port \in Ports}
    \cup {V6(ip, port, fl, sc) : ip \in Ip6s, port \in Ports, fl \in U32s, sc \in U32s}

\* what the OS may leave in an address out-parameter: any family tag, over
\* any body, with any reported length
OsFamilies == {AF_UNSPEC, AF_UNIX, AF_INET, AF_INET6_UNIX, AF_INET6_WINDOWS}
OsLens == {0, 2, 15, 16, 27, 28, 128}
OsBodies == {Zeros(26), [i \in 1..26 |-> i], [i \in 1..26 |-> 255 - i]}
OsBuffers(e) ==
    {Overwrite(ZeroStorage, store_u16(f, e) \o b) : f \in OsFamilies, b \in OsBodies}

-----------------------------------------------------------------------------
(* Bounds *)

MaxSockets == 2     \* Socket values alive at once
MaxThreads == 2     \* threads calling Socket::new
Threads == 1..MaxThreads

SockIds == 1..MaxSockets
\* the handle table: one handle more than there can be Sockets
Handles == 0..MaxSockets
\* lengths of the byte buffers handed to send / recv
BufLens == {0, 2}

Min(S) == CHOOSE x \in S : \A y \in S : x <= y
Max(S) == CHOOSE x \in S : \A y \in S : x >= y
Range(f) == {f[x] : x \in DOMAIN f}

-----------------------------------------------------------------------------
(* The operating system *)

\* the failure sentinel of an OS call (INVALID_SOCKET, all bits set, on Windows)
SOCKET_ERROR == -1
\* ESHUTDOWN
SOCKET_SHUTDOWN == 108
WSAESHUTDOWN == 10058
I32_MAX == 2147483647

\* error codes a call on an open socket may fail with: not-connected
\* (ENOTCONN / WSAENOTCONN) and already-shut-down
IoErrnos(p) == IF p = "windows" THEN {10057, WSAESHUTDOWN} ELSE {107, SOCKET_SHUTDOWN}
\* EBADF / WSAENOTSOCK: the handle names no open socket
BadHandle(p) == IF p = "windows" THEN 10038 ELSE 9
\* EINVAL / WSAEINVAL
InvalidArgument(p) == IF p = "windows" THEN 10022 ELSE 22

\* what an OS call leaves behind: its return value and, on failure, errno
Out(ret, err) == [ret |-> ret, err |-> err]
Fail(p) == {Out(SOCKET_ERROR, e) : e \in IoErrnos(p)}

\* one OS call of an operation: function, handle argument, other argument,
\* return value, errno
Call(fn, fd, arg, o) == [fn |-> fn, fd |-> fd, arg |-> arg, ret |-> o.ret, err |-> o.err]

\* the handle a successful socket() / accept() returns: an unused one.  POSIX
\* gives the lowest; which one Windows gives matters to no operation, and the
\* model takes the lowest there too.
FreshHandles(p, op) ==
    LET free == Handles \ op
    IN  IF free = {} THEN {} ELSE {Min(free)}

os_socket(p, op) == Fail(p) \cup {Out(h, 0) : h \in FreshHandles(p, op)}

os_accept(fd, p, op) ==
    IF fd \in op THEN Fail(p) \cup {Out(h, 0) : h \in FreshHandles(p, op)}
    ELSE {Out(SOCKET_ERROR, BadHandle(p))}

\* calls that return 0 or the sentinel: bind, listen, connect, shutdown,
\* getsockname, ioctl
os_status(fd, p, op) ==
    IF fd \in op THEN {Out(0, 0)} \cup Fail(p) ELSE {Out(SOCKET_ERROR, BadHandle(p))}

os_close(fd, p, op) ==
    IF fd \in op THEN {Out(0, 0)} ELSE {Out(SOCKET_ERROR, BadHandle(p))}

\* send, sendto, recv, recvfrom with a buffer of n bytes: a count or the sentinel
os_io(fd, n, p, op) ==
    IF fd \in op THEN {Out(k, 0) : k \in 0..n} \cup Fail(p)
    ELSE {Out(SOCKET_ERROR, BadHandle(p))}

\* the handle table after a call
after(op, c) ==
    IF c.fn \in {"socket", "accept", "accept4"} /\ c.ret # SOCKET_ERROR THEN op \cup {c.ret}
    ELSE IF c.fn = "close" /\ c.ret = 0 THEN op \ {c.fd}
    ELSE op

RECURSIVE afterAll(_, _)
afterAll(op, calls) ==
    IF calls = <<>> THEN op ELSE afterAll(after(op, Head(calls)), Tail(calls))

\* addresses of peers, and what the OS writes to an address out-parameter
PeerAddrs == {V4(<<127, 0, 0, 1>>, 5666), V6(Ip6Loopback, 1666, U32(258, 772), U32(0, 1))}
Untouched == [storage |-> ZeroStorage, len |-> SIZEOF_SOCKADDR_STORAGE]
OsAddrs(e, p) ==
    {[storage |-> Overwrite(ZeroStorage, get_raw_addr(a, e, p).bytes),
      len |-> get_raw_addr(a, e, p).len] : a \in PeerAddrs}
    \cup {[storage |-> Overwrite(ZeroStorage, get_raw_addr(a, e, p).bytes),
           len |-> SIZEOF_SOCKADDR_IN] : a \in PeerAddrs}
    \cup {[storage |-> Overwrite(ZeroStorage, store_u16(AF_UNIX, e)), len |-> 2]}
    \cup {Untouched}

-----------------------------------------------------------------------------
(* Helpers *)

\* the ? operator: an Err ends the function with that Err (a panic unwinds)
Try(r, rest) == IF r.kind = "Ok" THEN rest ELSE r

\* Socket values
Put(id, h) == [i \in DOMAIN live \cup {id} |-> IF i = id THEN h ELSE live[i]]
Forget(id) == [i \in DOMAIN live \ {id} |-> live[i]]
FreeIds == SockIds \ DOMAIN live
NewId == Min(FreeIds)

-----------------------------------------------------------------------------
(* The operations of Socket.  X_runs is the set of ways operation X can run: *)
(* the OS calls it makes, in order, with what the OS answered, the value it *)
(* returns, and the address buffer the OS filled.                          *)

Run(calls, res, out) == [calls |-> calls, res |-> res, out |-> out]

\* ShutdownType
Receive == 0
Send == 1
Both == 2

\* AcceptFlags
SOCK_NONBLOCK == 2048
SOCK_CLOEXEC == 524288
AcceptFlags == SUBSET {"NON_BLOCKING", "NON_INHERITABLE"}
bits(flags) ==
    (IF "NON_BLOCKING" \in flags THEN SOCK_NONBLOCK ELSE 0)
    + (IF "NON_INHERITABLE" \in flags THEN SOCK_CLOEXEC ELSE 0)

\* the pattern `0 => Ok(()), _ => Err(io::Error::last_os_error())`
status_result(o) == IF o.ret = 0 THEN Ok(0, NoAddr) ELSE OsErr(o.err)

\* variant: the SOCKET_ERROR arm is missing, whatever socket() returns is wrapped
new_runs_unchecked(p, op) ==
    {Run(<<Call("socket", SOCKET_ERROR, 0, o)>>, Ok(o.ret, NoAddr), Untouched) :
       o \in os_socket(p, op)}

\* Socket::new
new_runs(p, op) ==
    {Run(<<Call("socket", SOCKET_ERROR, 0, o)>>,
         IF o.ret = SOCKET_ERROR THEN OsErr(o.err) ELSE Ok(o.ret, NoAddr),
         Untouched) : o \in os_socket(p, op)}

\* Socket::raw
raw_runs(fd) == {Run(<<>>, Ok(fd, NoAddr), Untouched)}

\* a failed call leaves the address out-parameter as it was
AddrOuts(o, e, p) == IF o.ret = SOCKET_ERROR THEN {Untouched} ELSE OsAddrs(e, p)

\* the buffer get_raw_addr hands to the OS for addr
RawOut(addr, e, p) ==
    [storage |-> Overwrite(ZeroStorage, get_raw_addr(addr, e, p).bytes),
     len |-> get_raw_addr(addr, e, p).len]

\* what getsockname reports for a socket that has no name: POSIX leaves the
\* stored value unspecified and Linux reports the wildcard address of the
\* socket's family, a bare family tag for a unix-domain socket
UnboundNames(e, p) ==
    {RawOut(V4(<<0, 0, 0, 0>>, 0), e, p),
     RawOut(V6(Ip6Zero, 0, U32(0, 0), U32(0, 0)), e, p),
     [storage |-> Overwrite(ZeroStorage, store_u16(AF_UNIX, e)), len |-> 2]}

\* the OS getsockname, given the operation that came before (prev).  Right
\* after a successful bind of this handle it reports the bound address; on a
\* handle socket() has just returned Winsock fails with WSAEINVAL and POSIX
\* succeeds with an unspecified value; what the OS knows of older history is
\* not tracked, and any answer is possible.
os_getsockname(fd, e, p, op, prev) ==
    IF fd \notin op
    THEN {[o |-> Out(SOCKET_ERROR, BadHandle(p)), out |-> Untouched]}
    ELSE IF prev.op = "bind" /\ prev.fd = fd /\ prev.res.kind = "Ok"
    THEN {[o |-> Out(0, 0), out |-> [storage |-> prev.storage, len |-> prev.len]]}
    ELSE IF prev.op = "new" /\ prev.res.kind = "Ok" /\ prev.res.n = fd
    THEN IF p = "windows"
         THEN {[o |-> Out(SOCKET_ERROR, InvalidArgument(p)), out |-> Untouched]}
         ELSE {[o |-> Out(0, 0), out |-> out] : out \in UnboundNames(e, p)}
    ELSE UNION {{[o |-> o, out |-> out] : out \in AddrOuts(o, e, p)} :
                o \in os_status(fd, p, op)}

\* Socket::name
name_result(o, out, e, p) ==
    IF o.ret = SOCKET_ERROR THEN OsErr(o.err)
    ELSE sockaddr_to_addr(out.storage, out.len, e, p)

name_runs(fd, e, p, op, prev) ==
    {Run(<<Call("getsockname", fd, 0, a.o)>>, name_result(a.o, a.out, e, p), a.out) :
       a \in os_getsockname(fd, e, p, op, prev)}

\* Socket::bind
bind_runs(fd, addr, e, p, op) ==
    {Run(<<Call("bind", fd, get_raw_addr(addr, e, p).len, o)>>, status_result(o),
         RawOut(addr, e, p)) :
       o \in os_status(fd, p, op)}

\* Socket::listen
listen_runs(fd, backlog, p, op) ==
    {Run(<<Call("listen", fd, backlog, o)>>, status_result(o), Untouched) :
       o \in os_status(fd, p, op)}

\* EINPROGRESS / WSAEWOULDBLOCK
InProgress(p) == IF p = "windows" THEN 10035 ELSE 115

\* connect() on a socket in non-blocking mode may also report that the
\* connection is under way
os_connect_nonblocking(fd, p, op) ==
    os_status(fd, p, op)
    \cup (IF fd \in op THEN {Out(SOCKET_ERROR, InProgress(p))} ELSE {})

\* Socket::connect after set_nonblocking(true)
connect_nonblocking_runs(fd, addr, e, p, op) ==
    {Run(<<Call("connect", fd, get_raw_addr(addr, e, p).len, o)>>, status_result(o), Untouched) :
       o \in os_connect_nonblocking(fd, p, op)}

\* the kernel's connection state of fd after a connect call
connected(cn, fd, c, p) ==
    IF c.ret = 0 THEN [h \in DOMAIN cn \cup {fd} |-> IF h = fd THEN "connected" ELSE cn[h]]
    ELSE IF c.err = InProgress(p)
    THEN [h \in DOMAIN cn \cup {fd} |-> IF h = fd THEN "connecting" ELSE cn[h]]
    ELSE cn

\* Socket::connect
connect_runs(fd, addr, e, p, op) ==
    {Run(<<Call("connect", fd, get_raw_addr(addr, e, p).len, o)>>, status_result(o), Untouched) :
       o \in os_status(fd, p, op)}

\* the length handed to the OS: buf.len(), on Windows cmp::min(buf.len(), i32::MAX)
io_len(n, p) == IF p = "windows" /\ n > I32_MAX THEN I32_MAX ELSE n

\* Socket::recv
recv_result(o, p) ==
    IF o.ret = SOCKET_ERROR
    THEN IF p = "windows" /\ o.err = WSAESHUTDOWN THEN Ok(0, NoAddr) ELSE OsErr(o.err)
    ELSE Ok(o.ret, NoAddr)

recv_runs(fd, n, p, op) ==
    {Run(<<Call("recv", fd, io_len(n, p), o)>>, recv_result(o, p), Untouched) :
       o \in os_io(fd, io_len(n, p), p, op)}

\* variant: the length of the address is returned as the byte count
recv_from_result_storage_len(o, out, e, p) ==
    LET peer_addr == sockaddr_to_addr(out.storage, out.len, e, p)
    IN  IF o.ret = SOCKET_ERROR THEN OsErr(o.err)
        ELSE Try(peer_addr, Ok(out.len, peer_addr.addr))

\* Socket::recv_from
recv_from_result(o, out, e, p) ==
    LET peer_addr == sockaddr_to_addr(out.storage, out.len, e, p)
    IN  IF o.ret = SOCKET_ERROR
        THEN IF p = "windows" /\ o.err = WSAESHUTDOWN
             THEN Try(peer_addr, Ok(0, peer_addr.addr))
             ELSE OsErr(o.err)
        ELSE Try(peer_addr, Ok(o.ret, peer_addr.addr))

recv_from_runs(fd, n, e, p, op) ==
    UNION {{Run(<<Call("recvfrom", fd, io_len(n, p), o)>>, recv_from_result(o, out, e, p), out) :
              out \in AddrOuts(o, e, p)} :
           o \in os_io(fd, io_len(n, p), p, op)}

\* variant: no error code is singled out
send_result_untranslated(o, p) ==
    IF o.ret = SOCKET_ERROR THEN OsErr(o.err) ELSE Ok(o.ret, NoAddr)

\* Socket::send
send_result(o, p) ==
    IF o.ret = SOCKET_ERROR
    THEN IF o.err = (IF p = "windows" THEN WSAESHUTDOWN ELSE SOCKET_SHUTDOWN)
         THEN Ok(0, NoAddr)
         ELSE OsErr(o.err)
    ELSE Ok(o.ret, NoAddr)

send_runs(fd, n, p, op) ==
    {Run(<<Call("send", fd, io_len(n, p), o)>>, send_result(o, p), Untouched) :
       o \in os_io(fd, io_len(n, p), p, op)}

\* Socket::send_to
send_to_result(o, p) ==
    IF o.ret = SOCKET_ERROR
    THEN IF o.err = (IF p = "windows" THEN WSAESHUTDOWN ELSE SOCKET_SHUTDOWN)
         THEN Ok(0, NoAddr)
         ELSE OsErr(o.err)
    ELSE Ok(o.ret, NoAddr)

send_to_runs(fd, n, peer_addr, e, p, op) ==
    {Run(<<Call("sendto", fd, io_len(n, p), o)>>, send_to_result(o, p), Untouched) :
       o \in os_io(fd, io_len(n, p), p, op)}

\* Socket::shutdown
shutdown_runs(fd, direction, p, op) ==
    {Run(<<Call("shutdown", fd, direction, o)>>, status_result(o), Untouched) :
       o \in os_status(fd, p, op)}

\* Socket::close
close_runs(fd, p, op) ==
    {Run(<<Call("close", fd, 0, o)>>, status_result(o), Untouched) : o \in os_close(fd, p, op)}

\* variant: a failed shutdown ends drop (`self.shutdown(Both).and_then(|_| self.close())`)
drop_runs_shutdown_first(fd, p, op) ==
    UNION {IF s.res.kind # "Ok" THEN {Run(s.calls, Unit, Untouched)}
           ELSE {Run(s.calls \o c.calls, Unit, Untouched) :
                   c \in close_runs(fd, p, afterAll(op, s.calls))} :
           s \in shutdown_runs(fd, Both, p, op)}

\* impl Drop for Socket: `let _ = self.shutdown(Both); let _ = self.close();`
drop_runs(fd, p, op) ==
    UNION {{Run(s.calls \o c.calls, Unit, Untouched) :
              c \in close_runs(fd, p, afterAll(op, s.calls))} :
           s \in shutdown_runs(fd, Both, p, op)}

\* variant: the peer address is not decoded from the buffer
accept_result_unspecified_peer(o, out, e, p) ==
    IF o.ret = SOCKET_ERROR THEN OsErr(o.err)
    ELSE Ok(o.ret, V4(<<0, 0, 0, 0>>, 0))

\* Socket::accept
accept_result(o, out, e, p) ==
    LET addr == sockaddr_to_addr(out.storage, out.len, e, p)
    IN  IF o.ret = SOCKET_ERROR THEN OsErr(o.err)
        ELSE Try(addr, Ok(o.ret, addr.addr))

accept_runs(fd, e, p, op) ==
    UNION {{Run(<<Call("accept", fd, 0, o)>>, accept_result(o, out, e, p), out) :
              out \in AddrOuts(o, e, p)} :
           o \in os_accept(fd, p, op)}

\* SetHandleInformation: nonzero on success, 0 on failure
os_bool(fd, p, op) ==
    IF fd \in op THEN {Out(1, 0), Out(0, BadHandle(p))} ELSE {Out(0, BadHandle(p))}

\* variant: FIONBIO is given value, not !value
set_blocking_runs_unnegated(fd, value, p, op) ==
    {Run(<<Call("ioctl", fd, IF value THEN 1 ELSE 0, o)>>, status_result(o), Untouched) :
       o \in os_status(fd, p, op)}

\* Socket::set_blocking, through Socket::ioctl(FIONBIO, !value)
set_blocking_runs(fd, value, p, op) ==
    {Run(<<Call("ioctl", fd, IF value THEN 0 ELSE 1, o)>>, status_result(o), Untouched) :
       o \in os_status(fd, p, op)}

\* Socket::set_inheritable (windows.rs)
set_inheritable_runs(fd, value, p, op) ==
    {Run(<<Call("SetHandleInformation", fd, IF value THEN 1 ELSE 0, o)>>,
         IF o.ret = 0 THEN OsErr(o.err) ELSE Ok(0, NoAddr), Untouched) :
       o \in os_bool(fd, p, op)}

\* a failed .expect(..) inside the closure: the thread panics and unwinding
\* drops the accepted Socket the closure owns
panic_runs(calls, fd, out, p, op) ==
    {Run(calls \o d.calls, Panic, out) : d \in drop_runs(fd, p, afterAll(op, calls))}

\* Socket::accept4 where accept4(2) exists (unix.rs, first cfg)
accept4_native_runs(fd, flags, e, p, op) ==
    UNION {{Run(<<Call("accept4", fd, bits(flags), o)>>, accept_result(o, out, e, p), out) :
              out \in AddrOuts(o, e, p)} :
           o \in os_accept(fd, p, op)}

\* Socket::accept4 emulated: accept().map(|(sock, addr)| { set_blocking(..)
\* .expect(..); set_inheritable(..).expect(..); (sock, addr) })
accept4_emulated_runs(fd, flags, e, p, op) ==
    UNION {
      IF a.res.kind # "Ok" THEN {a}
      ELSE UNION {
        IF sb.res.kind # "Ok"
        THEN panic_runs(a.calls \o sb.calls, a.res.n, a.out, p, op)
        ELSE UNION {
          IF si.res.kind # "Ok"
          THEN panic_runs(a.calls \o sb.calls \o si.calls, a.res.n, a.out, p, op)
          ELSE {Run(a.calls \o sb.calls \o si.calls, a.res, a.out)}
          : si \in set_inheritable_runs(a.res.n, "NON_INHERITABLE" \notin flags, p,
                                        afterAll(op, a.calls \o sb.calls))}
        : sb \in set_blocking_runs(a.res.n, "NON_BLOCKING" \notin flags, p,
                                   afterAll(op, a.calls))}
      : a \in accept_runs(fd, e, p, op)}

\* the kernel's modes of the child handle an accept returned, after the calls
\* that followed: accept4(2) sets them from its flag bits, a child of
\* accept(2) starts with modes the model does not know (Winsock and BSD copy
\* the listener's), a successful ioctl(FIONBIO, v) makes the handle
\* non-blocking iff v # 0, and a successful SetHandleInformation(
\* HANDLE_FLAG_INHERIT, v) makes it inheritable iff v # 0
Modes == [nonblocking : BOOLEAN, inheritable : BOOLEAN]
child_modes_at_accept(c) ==
    IF c.fn = "accept4"
    THEN {[nonblocking |-> (c.arg \div SOCK_NONBLOCK) % 2 = 1,
           inheritable |-> (c.arg \div SOCK_CLOEXEC) % 2 = 0]}
    ELSE Modes
mode_after(m, c) ==
    IF c.fn = "ioctl" /\ c.ret = 0 THEN [m EXCEPT !.nonblocking = (c.arg # 0)]
    ELSE IF c.fn = "SetHandleInformation" /\ c.ret # 0
    THEN [m EXCEPT !.inheritable = (c.arg # 0)]
    ELSE m
RECURSIVE modes_after(_, _)
modes_after(ms, calls) ==
    IF calls = <<>> THEN ms
    ELSE modes_after({mode_after(m, Head(calls)) : m \in ms}, Tail(calls))
child_modes(calls) == modes_after(child_modes_at_accept(Head(calls)), Tail(calls))

accept4_runs(fd, flags, e, p, op) ==
    IF p = "windows" THEN accept4_emulated_runs(fd, flags, e, p, op)
    ELSE accept4_native_runs(fd, flags, e, p, op)

\* variant: into_raw_fd lets the Socket drop instead of forgetting it
into_raw_fd_runs_dropping(fd, p, op) ==
    {Run(d.calls, Ok(fd, NoAddr), Untouched) : d \in drop_runs(fd, p, op)}

\* IntoRawFd / IntoRawSocket: `let result = self.inner; mem::forget(self); result`
into_raw_fd_runs(fd, p, op) == {Run(<<>>, Ok(fd, NoAddr), Untouched)}

\* FromRawFd / FromRawSocket: `Socket {inner: sock}`
from_raw_fd_runs(sock) == {Run(<<>>, Ok(sock, NoAddr), Untouched)}

-----------------------------------------------------------------------------
(* select *)

FD_SETSIZE == 64

\* A u64 is kept as its four 16-bit limbs, most significant first, every
\* number staying within TLC's 32-bit integers.  U64(n) is the u64 of a small n.
U64(n) == <<0, 0, n \div 65536, n % 65536>>

\* Option<u64>
None == [some |-> FALSE, ms |-> U64(0)]
Some(ms) == [some |-> TRUE, ms |-> ms]

\* the widths of the native integer types: time_t and suseconds_t on an LP64
\* unix target, c_long on Windows
TIME_T_BITS == 64
SUSECONDS_T_BITS == 64
C_LONG_BITS == 32

\* limbs + 1, dropping the carry out of the top limb
RECURSIVE add_one(_)
add_one(l) ==
    IF l = <<>> THEN <<>>
    ELSE IF l[Len(l)] < 65535 THEN [l EXCEPT ![Len(l)] = l[Len(l)] + 1]
    ELSE add_one(SubSeq(l, 1, Len(l) - 1)) \o <<0>>

\* the magnitude of a negative two's complement number
twos_complement(l) == add_one([i \in 1..Len(l) |-> 65535 - l[i]])

\* `t as iN` for a u64 t: the low N bits, read as two's complement.  A signed
\* native integer is kept as its sign and its magnitude (four limbs).
as_signed(t, nbits) ==
    LET n == nbits \div 16
        low == SubSeq(t, 5 - n, 4)
        neg == low[1] >= 32768
    IN  [neg |-> neg, mag |-> Zeros(4 - n) \o (IF neg THEN twos_complement(low) ELSE low)]

\* limbs divided by a small d: the quotient's limbs and the remainder
RECURSIVE div_limbs(_, _, _)
div_limbs(l, d, r) ==
    IF l = <<>> THEN [q |-> <<>>, r |-> r]
    ELSE LET cur == r * 65536 + Head(l)
             rest == div_limbs(Tail(l), d, cur % d)
         IN  [q |-> <<cur \div d>> \o rest.q, r |-> rest.r]

\* Rust's / and % on signed integers: the quotient truncates toward zero and
\* the remainder has the sign of the dividend
signed_div(x, d) ==
    LET q == div_limbs(x.mag, d, 0).q
    IN  [neg |-> x.neg /\ q # Zeros(4), mag |-> q]
signed_rem(x, d) ==
    LET r == div_limbs(x.mag, d, 0).r
    IN  IF x.neg THEN 0 - r ELSE r

\* a pointer to a native descriptor set: null, or the set built.  On POSIX the
\* set is a bit per descriptor (bits), on Windows an array with a count (array).
NullSet == [null |-> TRUE, bits |-> {}, array |-> <<>>]
SetPtr(b, a) == [null |-> FALSE, bits |-> b, array |-> a]

\* a pointer to a native timeval
NullTime == [null |-> TRUE, tv_sec |-> as_signed(U64(0), TIME_T_BITS), tv_usec |-> 0]
TimePtr(tv) == [null |-> FALSE, tv_sec |-> tv.tv_sec, tv_usec |-> tv.tv_usec]

\* ms_to_timeval (unix.rs)
ms_to_timeval_unix(timeout_ms) ==
    [tv_sec |-> signed_div(as_signed(timeout_ms, TIME_T_BITS), 1000),
     tv_usec |-> signed_rem(as_signed(timeout_ms, SUSECONDS_T_BITS), 1000) * 1000]

\* ms_to_timeval (windows.rs)
ms_to_timeval_windows(timeout_ms) ==
    [tv_sec |-> signed_div(as_signed(timeout_ms, C_LONG_BITS), 1000),
     tv_usec |-> signed_rem(as_signed(timeout_ms, C_LONG_BITS), 1000) * 1000]

ms_to_timeval(timeout_ms, p) ==
    IF p = "windows" THEN ms_to_timeval_windows(timeout_ms)
    ELSE ms_to_timeval_unix(timeout_ms)

\* sockets_to_fd_set (unix.rs), over the `inner` of the Sockets referenced:
\* the loop leaves max_fd = max(0, every inner) and a bit set per inner
sockets_to_fd_set_unix(sockets) ==
    [max_fd |-> Max({0} \cup Range(sockets)), raw_fds |-> Range(sockets)]

\* sockets_to_fd_set (windows.rs): fd_array[fd_count] = inner; fd_count += 1
sockets_to_fd_set_windows(sockets) == sockets

\* the arguments select hands to the OS call
SelectArgs(nfds, readfds, writefds, exceptfds, timeout) ==
    [nfds |-> nfds, readfds |-> readfds, writefds |-> writefds, exceptfds |-> exceptfds,
     timeout |-> timeout]
NoArgs == SelectArgs(0, NullSet, NullSet, NullSet, NullTime)

\* variant: no timeout is passed as a zero interval (a poll) instead of null
timeout_arg_zero_for_none(timeout_ms, p) ==
    TimePtr(ms_to_timeval(timeout_ms.ms, p))

\* `if let Some(timeout_ms) = timeout_ms { &mut ms_to_timeval(timeout_ms) } else
\* { ptr::null_mut() }`
timeout_arg(timeout_ms, p) ==
    IF timeout_ms.some THEN TimePtr(ms_to_timeval(timeout_ms.ms, p)) ELSE NullTime

\* variant: nfds is the highest handle, not one more
select_args_unix_highest(read_fds, write_fds, except_fds, timeout_ms) ==
    LET r == sockets_to_fd_set_unix(read_fds)
        w == sockets_to_fd_set_unix(write_fds)
        x == sockets_to_fd_set_unix(except_fds)
    IN  SelectArgs(Max({r.max_fd, w.max_fd, x.max_fd}),
                   IF r.max_fd > 0 THEN SetPtr(r.raw_fds, <<>>) ELSE NullSet,
                   IF w.max_fd > 0 THEN SetPtr(w.raw_fds, <<>>) ELSE NullSet,
                   IF x.max_fd > 0 THEN SetPtr(x.raw_fds, <<>>) ELSE NullSet,
                   timeout_arg(timeout_ms, "unix"))

\* select (unix.rs) up to the OS call
select_args_unix(read_fds, write_fds, except_fds, timeout_ms) ==
    LET r == sockets_to_fd_set_unix(read_fds)
        w == sockets_to_fd_set_unix(write_fds)
        x == sockets_to_fd_set_unix(except_fds)
    IN  SelectArgs(Max({r.max_fd, w.max_fd, x.max_fd}) + 1,
                   IF r.max_fd > 0 THEN SetPtr(r.raw_fds, <<>>) ELSE NullSet,
                   IF w.max_fd > 0 THEN SetPtr(w.raw_fds, <<>>) ELSE NullSet,
                   IF x.max_fd > 0 THEN SetPtr(x.raw_fds, <<>>) ELSE NullSet,
                   timeout_arg(timeout_ms, "unix"))

\* select (windows.rs) up to the OS call
select_args_windows(read_fds, write_fds, except_fds, timeout_ms) ==
    SelectArgs(0,
               IF Len(read_fds) > 0 THEN SetPtr({}, sockets_to_fd_set_windows(read_fds))
               ELSE NullSet,
               IF Len(write_fds) > 0 THEN SetPtr({}, sockets_to_fd_set_windows(write_fds))
               ELSE NullSet,
               IF Len(except_fds) > 0 THEN SetPtr({}, sockets_to_fd_set_windows(except_fds))
               ELSE NullSet,
               timeout_arg(timeout_ms, "windows"))

\* the assert! of sockets_to_fd_set (windows.rs)
fits(sockets, p) == p # "windows" \/ Len(sockets) < FD_SETSIZE

select_args(read_fds, write_fds, except_fds, timeout_ms, p) ==
    IF p = "windows" THEN select_args_windows(read_fds, write_fds, except_fds, timeout_ms)
    ELSE select_args_unix(read_fds, write_fds, except_fds, timeout_ms)

\* the handles in a native set, and the number of (set, handle) pairs the OS
\* is asked to watch
InSet(ptr) == ptr.bits \cup Range(ptr.array)
WatchedHandles(a) == InSet(a.readfds) \cup InSet(a.writefds) \cup InSet(a.exceptfds)
Watched(a) ==
    Cardinality(InSet(a.readfds)) + Cardinality(InSet(a.writefds))
    + Cardinality(InSet(a.exceptfds))

\* EINTR / WSAENETDOWN: a select that fails through no fault of its arguments
SelectErrnos(p) == IF p = "windows" THEN {10050} ELSE {4}

\* a timeval the OS accepts
valid_timeval(tv) == ~tv.tv_sec.neg /\ tv.tv_usec >= 0 /\ tv.tv_usec < 1000000

\* the OS select.  It rejects a negative interval, Winsock rejects three null
\* sets, and a handle that is not open is a bad handle; else it answers the
\* sentinel or the number of ready descriptors among those it was given, and
\* without a timeout it returns only once one is ready.
os_select_rejects(a, p, op) ==
    IF ~a.timeout.null /\ ~valid_timeval(a.timeout)
    THEN {Out(SOCKET_ERROR, InvalidArgument(p))}
    ELSE IF p = "windows" /\ a.readfds.null /\ a.writefds.null /\ a.exceptfds.null
    THEN {Out(SOCKET_ERROR, InvalidArgument(p))}
    ELSE IF ~(WatchedHandles(a) \subseteq op)
    THEN {Out(SOCKET_ERROR, BadHandle(p))}
    ELSE {}

os_select(a, p, op) ==
    IF os_select_rejects(a, p, op) # {} THEN os_select_rejects(a, p, op)
    ELSE {Out(SOCKET_ERROR, e) : e \in SelectErrnos(p)}
         \cup {Out(k, 0) : k \in (IF a.timeout.null THEN 1 ELSE 0)..Watched(a)}

\* the OS select as a wait, in a system where no signal or network failure
\* interrupts it: a rejected call returns at once; else the call returns the
\* number of write-set handles whose connection is complete as soon as there
\* is one, 0 once the timeout has run out, and until then it does not return
Writable(a, cn) == {h \in InSet(a.writefds) \cap DOMAIN cn : cn[h] = "connected"}
os_wait(a, p, op, cn, el) ==
    IF os_select_rejects(a, p, op) # {} THEN os_select_rejects(a, p, op)
    ELSE IF Writable(a, cn) # {} THEN {Out(Cardinality(Writable(a, cn)), 0)}
    ELSE IF ~a.timeout.null /\ el THEN {Out(0, 0)}
    ELSE {}

\* variant: a ready-count of 0 is reported as a timed-out error
select_result_zero_is_error(o) ==
    IF o.ret = SOCKET_ERROR THEN OsErr(o.err)
    ELSE IF o.ret = 0 THEN OsErr(110)
    ELSE Ok(o.ret, NoAddr)

\* `SOCKET_ERROR => Err(io::Error::last_os_error()), result @ _ => Ok(result)`
select_result(o) == IF o.ret = SOCKET_ERROR THEN OsErr(o.err) ELSE Ok(o.ret, NoAddr)

\* select: a panic before the OS call when a collection does not fit, else
\* the OS call and its result
select_runs(read_fds, write_fds, except_fds, timeout_ms, p, op) ==
    IF ~(fits(read_fds, p) /\ fits(write_fds, p) /\ fits(except_fds, p))
    THEN {Run(<<>>, Panic, Untouched)}
    ELSE LET a == select_args(read_fds, write_fds, except_fds, timeout_ms, p)
         IN  {Run(<<Call("select", SOCKET_ERROR, a.nfds, o)>>, select_result(o), Untouched) :
                o \in os_select(a, p, op)}

Selected(read_fds, write_fds, except_fds, timeout_ms, args) ==
    [read_fds |-> read_fds, write_fds |-> write_fds, except_fds |-> except_fds,
     timeout_ms |-> timeout_ms, args |-> args]
NoSelect == Selected(<<>>, <<>>, <<>>, None, NoArgs)
NoPending == [blocked |-> FALSE, sel |-> NoSelect]
Pending(selected) == [blocked |-> TRUE, sel |-> selected]

\* the collections a caller passes: references to live Sockets
RECURSIVE Sorted(_)
Sorted(S) == IF S = {} THEN <<>> ELSE <<Min(S)>> \o Sorted(S \ {Min(S)})
Collections == {Sorted(S) : S \in SUBSET DOMAIN live}
\* collections at the edge of the capacity of a Windows fd_set: one Socket
\* referenced 1, FD_SETSIZE - 1, FD_SETSIZE and FD_SETSIZE + 1 times
CapacityLens == {1, FD_SETSIZE - 1, FD_SETSIZE, FD_SETSIZE + 1}
LongCollections ==
    {<<>>} \cup {[i \in 1..n |-> id] : id \in DOMAIN live, n \in CapacityLens}
Inner(c) == [i \in 1..Len(c) |-> live[c[i]]]
\* timeouts: none, 0 ms, 100 ms, 1.5 s, and 2^31, 2^32 + 1 and 2^63 ms
Timeouts ==
    {None, Some(U64(0)), Some(U64(100)), Some(U64(1500)),
     Some(<<0, 0, 32768, 0>>), Some(<<0, 1, 0, 1>>), Some(<<32768, 0, 0, 0>>)}

-----------------------------------------------------------------------------
(* The record of the last operation *)

OpSel(op, self, fd, calls, res, out, selected) ==
    [op |-> op, self |-> self, fd |-> fd, calls |-> calls, res |-> res,
     storage |-> out.storage, len |-> out.len, sel |-> selected]

Op(op, self, fd, calls, res, out) == OpSel(op, self, fd, calls, res, out, NoSelect)

NoOp == Op("none", 0, SOCKET_ERROR, <<>>, NoRes, Untouched)

-----------------------------------------------------------------------------
(* The loopback network *)

\* per handle: its local name (bound), the datagrams queued for it (rx), the
\* connections waiting to be accepted at it with what their clients have
\* sent (backlog), the name of the client at the other end of its connection
\* (peer), all bytes that client has sent (sent) and all that were read from
\* the handle (got); rbuf is the caller's buffer after the last receive
NoName == [addr |-> NoAddr, raw |-> Untouched]
NoNet ==
    [bound |-> [h \in Handles |-> NoName],
     rx |-> [h \in Handles |-> <<>>],
     listening |-> {},
     backlog |-> [h \in Handles |-> <<>>],
     peer |-> [h \in Handles |-> NoName],
     sent |-> [h \in Handles |-> <<>>],
     got |-> [h \in Handles |-> <<>>],
     rbuf |-> <<>>]

-----------------------------------------------------------------------------
(* Actions: one per operation *)

\* the kernel forgets the connection of a handle that is closed
StillOpen(cn, op) == [h \in DOMAIN cn \cap op |-> cn[h]]

ApplyNet(opname, id, fd, run, live2, conn2, net2) ==
    /\ last' = Op(opname, id, fd, run.calls, run.res, run.out)
    /\ open' = afterAll(open, run.calls)
    /\ live' = live2
    /\ conn' = StillOpen(conn2, afterAll(open, run.calls))
    /\ net' = net2
    /\ UNCHANGED <<buildVars, codecVars, pending, elapsed>>

ApplyConn(opname, id, fd, run, live2, conn2) ==
    ApplyNet(opname, id, fd, run, live2, conn2, net)

Apply(opname, id, fd, run, live2) == ApplyConn(opname, id, fd, run, live2, conn)

Do(opname, id, fd, run, live2) ==
    /\ Apply(opname, id, fd, run, live2)
    /\ UNCHANGED onceVars

\* an operation on &self that creates and consumes no Socket
OnSelf(opname, id, run) == Do(opname, id, live[id], run, live)

\* std::sync::Once::call_once as a thread meets it: a completed Once is passed
\* by, an untouched one is claimed and its closure run, and while another
\* thread runs the closure the caller waits
call_once_ready(o) == o # "RUNNING"
\* variant: the state is read but not claimed before the closure runs
call_once_step_unclaimed(o) ==
    [once |-> o, pc |-> IF o = "COMPLETE" THEN "socket" ELSE "closure"]
call_once_step(o) ==
    IF o = "COMPLETE" THEN [once |-> "COMPLETE", pc |-> "socket"]
    ELSE [once |-> "RUNNING", pc |-> "closure"]

\* the threads inside Socket::new
InNew == {t \in Threads : pc[t] # "idle"}

\* a thread calls Socket::new: windows.rs goes to INIT.call_once, unix.rs
\* straight to socket()
new_enter(t) ==
    /\ pc[t] = "idle"
    /\ Cardinality(FreeIds) > Cardinality(InNew)
    /\ pc' = [pc EXCEPT ![t] = IF platform = "windows" THEN "call_once" ELSE "socket"]
    /\ UNCHANGED <<once, inits, buildVars, net, codecVars, sockVars, waitVars>>

\* `INIT.call_once(|| {..})` up to the closure
new_call_once(t) ==
    /\ pc[t] = "call_once"
    /\ call_once_ready(once)
    /\ once' = call_once_step(once).once
    /\ pc' = [pc EXCEPT ![t] = call_once_step(once).pc]
    /\ UNCHANGED <<inits, buildVars, net, codecVars, sockVars, waitVars>>

\* the closure `let _ = net::UdpSocket::bind("127.0.0.1:34254");`, which makes
\* std initialise the socket subsystem, and the completion of the Once
new_closure(t) ==
    /\ pc[t] = "closure"
    /\ inits' = inits + 1
    /\ once' = "COMPLETE"
    /\ pc' = [pc EXCEPT ![t] = "socket"]
    /\ UNCHANGED <<buildVars, net, codecVars, sockVars, waitVars>>

\* the rest of Socket::new: socket() and the match on its result
new_socket(t) ==
    /\ pc[t] = "socket"
    /\ \E run \in new_runs(platform, open) :
         Apply("new", IF run.res.kind = "Ok" THEN NewId ELSE 0, SOCKET_ERROR, run,
               IF run.res.kind = "Ok" THEN Put(NewId, run.res.n) ELSE live)
    /\ pc' = [pc EXCEPT ![t] = "idle"]
    /\ UNCHANGED <<once, inits>>

\* Socket::new, called by a program with one thread: on Windows
\* INIT.call_once runs its closure unless it has run, then socket() is called
Socket_new ==
    /\ FreeIds # {}
    /\ once # "RUNNING"
    /\ \E run \in new_runs(platform, open) :
         Apply("new", IF run.res.kind = "Ok" THEN NewId ELSE 0, SOCKET_ERROR, run,
               IF run.res.kind = "Ok" THEN Put(NewId, run.res.n) ELSE live)
    /\ once' = IF platform = "windows" THEN "COMPLETE" ELSE once
    /\ inits' = IF platform = "windows" /\ once # "COMPLETE" THEN inits + 1 ELSE inits
    /\ UNCHANGED pc

Socket_raw(id) ==
    /\ id \in DOMAIN live
    /\ \E run \in raw_runs(live[id]) : OnSelf("raw", id, run)

Socket_name(id) ==
    /\ id \in DOMAIN live
    /\ \E run \in name_runs(live[id], endian, platform, open, last) : OnSelf("name", id, run)

Socket_bind(id, addr) ==
    /\ id \in DOMAIN live
    /\ \E run \in bind_runs(live[id], addr, endian, platform, open) : OnSelf("bind", id, run)

Socket_listen(id, backlog) ==
    /\ id \in DOMAIN live
    /\ \E run \in listen_runs(live[id], backlog, platform, open) : OnSelf("listen", id, run)

Socket_connect(id, addr) ==
    /\ id \in DOMAIN live
    /\ \E run \in connect_runs(live[id], addr, endian, platform, open) :
         OnSelf("connect", id, run)

Socket_recv(id, n) ==
    /\ id \in DOMAIN live
    /\ \E run \in recv_runs(live[id], n, platform, open) : OnSelf("recv", id, run)

Socket_recv_from(id, n) ==
    /\ id \in DOMAIN live
    /\ \E run \in recv_from_runs(live[id], n, endian, platform, open) :
         OnSelf("recv_from", id, run)

Socket_send(id, n) ==
    /\ id \in DOMAIN live
    /\ \E run \in send_runs(live[id], n, platform, open) : OnSelf("send", id, run)

Socket_send_to(id, n, peer_addr) ==
    /\ id \in DOMAIN live
    /\ \E run \in send_to_runs(live[id], n, peer_addr, endian, platform, open) :
         OnSelf("send_to", id, run)

Socket_accept(id) ==
    /\ id \in DOMAIN live
    /\ FreeIds # {}
    /\ \E run \in accept_runs(live[id], endian, platform, open) :
         Do("accept", id, live[id], run,
            IF run.res.kind = "Ok" THEN Put(NewId, run.res.n) ELSE live)

Socket_accept4(id, flags) ==
    /\ id \in DOMAIN live
    /\ FreeIds # {}
    /\ \E run \in accept4_runs(live[id], flags, endian, platform, open) :
         Do("accept4", id, live[id], run,
            IF run.res.kind = "Ok" THEN Put(NewId, run.res.n) ELSE live)

Socket_shutdown(id, direction) ==
    /\ id \in DOMAIN live
    /\ \E run \in shutdown_runs(live[id], direction, platform, open) :
         OnSelf("shutdown", id, run)

\* close(&self): the handle is closed, the Socket value lives on
Socket_close(id) ==
    /\ id \in DOMAIN live
    /\ \E run \in close_runs(live[id], platform, open) : OnSelf("close", id, run)

\* the Socket goes out of scope
Socket_drop(id) ==
    /\ id \in DOMAIN live
    /\ \E run \in drop_runs(live[id], platform, open) :
         Do("drop", id, live[id], run, Forget(id))

\* into_raw_fd(self) / into_raw_socket(self): the caller now holds the handle
Socket_into_raw_fd(id) ==
    /\ id \in DOMAIN live
    /\ \E run \in into_raw_fd_runs(live[id], platform, open) :
         Do("into_raw_fd", id, live[id], run, Forget(id))

\* unsafe from_raw_fd(sock) / from_raw_socket(sock): any integer is accepted
Socket_from_raw_fd(sock) ==
    /\ FreeIds # {}
    /\ \E run \in from_raw_fd_runs(sock) :
         Do("from_raw_fd", NewId, sock, run, Put(NewId, run.res.n))

\* variant: select takes the Sockets of read_fds by value and drops them
select_taking_ownership(read_fds, write_fds, except_fds, timeout_ms) ==
    /\ last.op # "select"
    /\ \E run \in select_runs(Inner(read_fds), Inner(write_fds), Inner(except_fds),
                            timeout_ms, platform, open) :
         /\ last' = OpSel("select", 0, SOCKET_ERROR, run.calls, run.res, run.out,
                          Selected(Inner(read_fds), Inner(write_fds), Inner(except_fds),
                                   timeout_ms, NoArgs))
         /\ open' = open \ Range(Inner(read_fds))
         /\ live' = [i \in DOMAIN live \ Range(read_fds) |-> live[i]]
         /\ UNCHANGED <<buildVars, net, codecVars, onceVars, waitVars>>

\* select(read_fds, write_fds, except_fds, timeout_ms).  select changes neither
\* the handle table nor a Socket, so a select that follows a select reaches
\* only what the first one reaches: the model takes one select at a time.
select(read_fds, write_fds, except_fds, timeout_ms) ==
    /\ last.op # "select"
    /\ \E run \in select_runs(Inner(read_fds), Inner(write_fds), Inner(except_fds),
                            timeout_ms, platform, open) :
         /\ last' = OpSel("select", 0, SOCKET_ERROR, run.calls, run.res, run.out,
                          Selected(Inner(read_fds), Inner(write_fds), Inner(except_fds),
                                   timeout_ms,
                                   IF run.calls = <<>> THEN NoArgs
                                   ELSE select_args(Inner(read_fds), Inner(write_fds),
                                                    Inner(except_fds), timeout_ms, platform)))
         /\ open' = afterAll(open, run.calls)
         /\ UNCHANGED <<live, buildVars, net, codecVars, onceVars, waitVars>>

\* the timeouts of the waiting selects: none, 0 ms, 100 ms, 2^31 and 2^63 ms
WaitTimeouts ==
    {None, Some(U64(0)), Some(U64(100)), Some(<<0, 0, 32768, 0>>), Some(<<32768, 0, 0, 0>>)}
\* the server address of the select tests
ServerAddr == V4(<<127, 0, 0, 1>>, 5666)

\* the program runs unless it is blocked in select
Running == ~pending.blocked

\* connect(&self, addr) on a Socket that set_nonblocking(true) was called on
Socket_connect_nonblocking(id, addr) ==
    /\ id \in DOMAIN live
    /\ \E run \in connect_nonblocking_runs(live[id], addr, endian, platform, open) :
         ApplyConn("connect", id, live[id], run, live,
                   connected(conn, live[id], run.calls[1], platform))
    /\ UNCHANGED onceVars

\* the peer's accept completes a connection that is under way
PeerAccepts(h) ==
    /\ h \in DOMAIN conn
    /\ conn[h] = "connecting"
    /\ conn' = [conn EXCEPT ![h] = "connected"]
    /\ UNCHANGED <<pending, elapsed, buildVars, net, codecVars, sockVars, onceVars>>

\* select(&[], write_fds, except_fds, timeout_ms) on Sockets whose connect
\* has been started, up to the OS call: the process blocks in select
select_enter(write_fds, except_fds, timeout_ms) ==
    /\ Running
    /\ Range(Inner(write_fds)) \cup Range(Inner(except_fds)) \subseteq DOMAIN conn
    /\ pending' = Pending(Selected(<<>>, Inner(write_fds), Inner(except_fds), timeout_ms,
                                   select_args(<<>>, Inner(write_fds), Inner(except_fds),
                                               timeout_ms, platform)))
    /\ elapsed' = FALSE
    /\ UNCHANGED <<conn, buildVars, net, codecVars, sockVars, onceVars>>

\* the timeout of the pending select runs out
TimeoutElapses ==
    /\ pending.blocked
    /\ ~pending.sel.args.timeout.null
    /\ ~elapsed
    /\ elapsed' = TRUE
    /\ UNCHANGED <<conn, pending, buildVars, net, codecVars, sockVars, onceVars>>

\* what the pending select returns now, if it returns
wait_runs(sl, p, op, cn, el) ==
    IF ~(fits(sl.read_fds, p) /\ fits(sl.write_fds, p) /\ fits(sl.except_fds, p))
    THEN {Run(<<>>, Panic, Untouched)}
    ELSE {Run(<<Call("select", SOCKET_ERROR, sl.args.nfds, o)>>, select_result(o), Untouched) :
            o \in os_wait(sl.args, p, op, cn, el)}

\* the OS call of the pending select returns, and select with it
select_return ==
    /\ pending.blocked
    /\ \E run \in wait_runs(pending.sel, platform, open, conn, elapsed) :
         last' = OpSel("select", 0, SOCKET_ERROR, run.calls, run.res, run.out, pending.sel)
    /\ pending' = NoPending
    /\ elapsed' = FALSE
    /\ UNCHANGED <<conn, open, live, buildVars, net, codecVars, onceVars>>

-----------------------------------------------------------------------------
(* Sockets talking to each other over the loopback network of one host that
   loses nothing and whose calls succeed when the network allows them
   (tests/socket.rs socket_test_udp, socket_test_tcp).  The OS answers are
   the network's; what an operation returns is computed by the operation. *)

MaxQueued == 2      \* datagrams queued in the whole network
MaxStream == 6      \* bytes written to one connection
\* the addresses of the server and the client of socket_test_udp
LoopAddrs == {V4(<<127, 0, 0, 1>>, 1666), V4(<<127, 0, 0, 1>>, 5666)}
\* what is sent, and the sizes of the receive buffers
Payloads == {<<1, 2, 3, 4>>, <<5, 6>>}
RecvLens == {2, 10}

\* a datagram: the sender's name, that is the address the sender passed to
\* bind (addr) and the bytes bind gave the kernel (raw), and the payload
Datagram(from, data) == [from |-> from, data |-> data]
\* the open handles whose local name is the raw address
BoundTo(raw) == {d \in open : net.bound[d] # NoName /\ net.bound[d].raw = raw}
\* how much is queued in the network
RECURSIVE QueuedIn(_)
QueuedIn(H) == IF H = {} THEN 0 ELSE Len(net.rx[Min(H)]) + QueuedIn(H \ {Min(H)})
Queued == QueuedIn(Handles)
\* the caller's zeroed buffer of n bytes after the OS has copied k bytes of data
Filled(data, k, n) == SubSeq(data, 1, k) \o Zeros(n - k)

\* bind(addr) of an unnamed handle to an address no handle has
loopback_bind(id, addr) ==
    /\ id \in DOMAIN live
    /\ live[id] \in open
    /\ net.bound[live[id]] = NoName
    /\ BoundTo(RawOut(addr, endian, platform)) = {}
    /\ \E run \in {r \in bind_runs(live[id], addr, endian, platform, open) :
                      r.calls[1].ret = 0} :
         ApplyNet("bind", id, live[id], run, live, conn,
                  [net EXCEPT !.bound[live[id]] = [addr |-> addr, raw |-> run.out]])
    /\ UNCHANGED onceVars

\* send_to(data, addr) from a bound datagram socket to another one: the
\* datagram is queued whole at the handle bound to addr, and sendto returns
\* its length
loopback_send_to(id, data, addr) ==
    /\ id \in DOMAIN live
    /\ live[id] \in open
    /\ net.bound[live[id]] # NoName
    /\ net.bound[live[id]].addr # addr
    /\ Queued < MaxQueued
    /\ \E run \in {r \in send_to_runs(live[id], Len(data), addr, endian, platform, open) :
                      r.calls[1].ret = Len(data)} :
         ApplyNet("send_to", id, live[id], run, live, conn,
                  [net EXCEPT !.rx = [d \in Handles |->
                      IF d \in BoundTo(RawOut(addr, endian, platform))
                      THEN Append(net.rx[d], Datagram(net.bound[live[id]], data))
                      ELSE net.rx[d]]])
    /\ UNCHANGED onceVars

\* what recvfrom / recv answer for the datagram at the head of the queue and
\* a buffer of n bytes: POSIX copies what fits, returns that count and
\* discards the rest (Winsock fails with WSAEMSGSIZE instead, a case the
\* model leaves out)
os_recv_datagram(dg, n) == Out(Min({n, Len(dg.data)}), 0)

\* recv_from(buf) with a datagram waiting
loopback_recv_from(id, n) ==
    /\ id \in DOMAIN live
    /\ live[id] \in open
    /\ net.rx[live[id]] # <<>>
    /\ LET dg == Head(net.rx[live[id]])
           o == os_recv_datagram(dg, n)
       IN  /\ platform = "windows" => n >= Len(dg.data)
           /\ ApplyNet("recv_from", id, live[id],
                       Run(<<Call("recvfrom", live[id], io_len(n, platform), o)>>,
                           recv_from_result(o, dg.from.raw, endian, platform), dg.from.raw),
                       live, conn,
                       [net EXCEPT !.rx[live[id]] = Tail(net.rx[live[id]]),
                                   !.rbuf = Filled(dg.data, o.ret, n)])
    /\ UNCHANGED onceVars

\* recv(buf) with a datagram waiting
loopback_recv(id, n) ==
    /\ id \in DOMAIN live
    /\ live[id] \in open
    /\ net.rx[live[id]] # <<>>
    /\ LET dg == Head(net.rx[live[id]])
           o == os_recv_datagram(dg, n)
       IN  /\ platform = "windows" => n >= Len(dg.data)
           /\ ApplyNet("recv", id, live[id],
                       Run(<<Call("recv", live[id], io_len(n, platform), o)>>,
                           recv_result(o, platform), Untouched),
                       live, conn,
                       [net EXCEPT !.rx[live[id]] = Tail(net.rx[live[id]]),
                                   !.rbuf = Filled(dg.data, o.ret, n)])
    /\ UNCHANGED onceVars

\* listen(backlog) on a bound stream socket
loopback_listen(id, backlog) ==
    /\ id \in DOMAIN live
    /\ live[id] \in open
    /\ net.bound[live[id]] # NoName
    /\ live[id] \notin net.listening
    /\ \E run \in {r \in listen_runs(live[id], backlog, platform, open) : r.calls[1].ret = 0} :
         ApplyNet("listen", id, live[id], run, live, conn,
                  [net EXCEPT !.listening = net.listening \cup {live[id]}])
    /\ UNCHANGED onceVars

\* the accepted handles, and the clients that are connected or waiting
Connected == {h \in Handles : net.peer[h] # NoName}
Waiting(l) == {net.backlog[l][i].from : i \in DOMAIN net.backlog[l]}
Clients == {net.peer[h] : h \in Connected} \cup UNION {Waiting(l) : l \in Handles}

\* a client in another thread or process, bound to addr through this library,
\* connects to a listener: the kernel completes the handshake and queues the
\* connection at the listener whether or not accept has been called
PeerConnects(addr, l) ==
    /\ l \in open \cap net.listening
    /\ net.bound[l].addr # addr
    /\ [addr |-> addr, raw |-> RawOut(addr, endian, platform)] \notin Clients
    /\ net' = [net EXCEPT !.backlog[l] =
                  Append(net.backlog[l],
                         [from |-> [addr |-> addr, raw |-> RawOut(addr, endian, platform)],
                          sent |-> <<>>])]
    /\ UNCHANGED <<buildVars, codecVars, sockVars, onceVars, waitVars>>

\* the client sends data on a connection that waits to be accepted
PeerSendsEarly(l, data) ==
    /\ l \in open
    /\ net.backlog[l] # <<>>
    /\ Len(net.backlog[l][1].sent) + Len(data) <= MaxStream
    /\ net' = [net EXCEPT !.backlog[l][1].sent = net.backlog[l][1].sent \o data]
    /\ UNCHANGED <<buildVars, codecVars, sockVars, onceVars, waitVars>>

\* the client sends data on an accepted connection
PeerSends(h, data) ==
    /\ h \in open \cap Connected
    /\ Len(net.sent[h]) + Len(data) <= MaxStream
    /\ net' = [net EXCEPT !.sent[h] = net.sent[h] \o data]
    /\ UNCHANGED <<buildVars, codecVars, sockVars, onceVars, waitVars>>

\* accept() on a listener, which waits until a connection is queued: the OS
\* returns a new handle for the oldest one and the client's name
loopback_accept(id) ==
    /\ id \in DOMAIN live
    /\ live[id] \in open \cap net.listening
    /\ net.backlog[live[id]] # <<>>
    /\ FreeIds # {}
    /\ \E child \in FreshHandles(platform, open) :
         LET client == Head(net.backlog[live[id]])
             o == Out(child, 0)
             run == Run(<<Call("accept", live[id], 0, o)>>,
                        accept_result(o, client.from.raw, endian, platform),
                        client.from.raw)
         IN  ApplyNet("accept", id, live[id], run,
                      IF run.res.kind = "Ok" THEN Put(NewId, run.res.n) ELSE live, conn,
                      [net EXCEPT !.backlog[live[id]] = Tail(net.backlog[live[id]]),
                                  !.peer[child] = client.from,
                                  !.sent[child] = client.sent,
                                  !.got[child] = <<>>])
    /\ UNCHANGED onceVars

\* the bytes the client has sent to h that h has not read yet
Unread(h) == SubSeq(net.sent[h], Len(net.got[h]) + 1, Len(net.sent[h]))

\* recv(buf) on an accepted socket, which waits until bytes have arrived: the
\* OS copies some or all of what fits, oldest first
loopback_recv_stream(id, n) ==
    /\ id \in DOMAIN live
    /\ live[id] \in open \cap Connected
    /\ Unread(live[id]) # <<>>
    /\ \E k \in 1..Min({n, Len(Unread(live[id]))}) :
         LET run == Run(<<Call("recv", live[id], io_len(n, platform), Out(k, 0))>>,
                        recv_result(Out(k, 0), platform), Untouched)
             buf == Filled(Unread(live[id]), k, n)
         IN  ApplyNet("recv", id, live[id], run, live, conn,
                      [net EXCEPT !.rbuf = buf,
                                  !.got[live[id]] =
                                      net.got[live[id]] \o SubSeq(buf, 1, run.res.n)])
    /\ UNCHANGED onceVars

-----------------------------------------------------------------------------
(* Specifications *)

BuildInit ==
    /\ platform \in Platforms
    /\ endian \in EndiansOf(platform)

CodecInit ==
    /\ cAddr = NoAddr
    /\ cStorage = ZeroStorage
    /\ cLen = SIZEOF_SOCKADDR_STORAGE
    /\ cFrom = "none"
    /\ cRes = NoRes

\* the process starts with no Socket; handle 0 (standard input) is open or not
SockInit ==
    /\ open \in {{}, {0}}
    /\ live = <<>>
    /\ last = NoOp

\* INIT is ONCE_INIT and no thread is inside Socket::new
OnceInit ==
    /\ once = "INCOMPLETE"
    /\ inits = 0
    /\ pc = [t \in Threads |-> "idle"]

\* no connect has been started and the process is not inside select
WaitInit ==
    /\ conn = <<>>
    /\ pending = NoPending
    /\ elapsed = FALSE

\* no handle has a local address, nothing is queued, nobody listens
NetInit == net = NoNet

Init == BuildInit /\ CodecInit /\ SockInit /\ OnceInit /\ WaitInit /\ NetInit

vars == <<platform, endian, cAddr, cStorage, cLen, cFrom, cRes, open, live, last,
          once, inits, pc, conn, pending, elapsed, net>>

\* The codec on its own: an address is encoded and the OS copies the encoded
\* bytes, with their length, into a zeroed storage buffer (bind then
\* getsockname, sendto then the peer's recvfrom) ...
Encode(a) ==
    /\ cRes.kind # "none" \/ cFrom = "none"
    /\ LET raw == get_raw_addr(a, endian, platform)
       IN  /\ cStorage' = Overwrite(ZeroStorage, raw.bytes)
           /\ cLen' = raw.len
    /\ cAddr' = a
    /\ cFrom' = "encode"
    /\ cRes' = NoRes
    /\ UNCHANGED <<buildVars, net, sockVars, onceVars, waitVars>>

\* ... or the OS fills the out-parameter with what it likes ...
OsFill(s, l) ==
    /\ cRes.kind # "none" \/ cFrom = "none"
    /\ cStorage' = s
    /\ cLen' = l
    /\ cAddr' = NoAddr
    /\ cFrom' = "os"
    /\ cRes' = NoRes
    /\ UNCHANGED <<buildVars, net, sockVars, onceVars, waitVars>>

\* ... and the buffer is decoded
Decode ==
    /\ cFrom # "none"
    /\ cRes.kind = "none"
    /\ cRes' = sockaddr_to_addr(cStorage, cLen, endian, platform)
    /\ UNCHANGED <<cAddr, cStorage, cLen, cFrom>>
    /\ UNCHANGED <<buildVars, net, sockVars, onceVars, waitVars>>

CodecNext ==
    \/ \E a \in Addrs : Encode(a)
    \/ \E s \in OsBuffers(endian), l \in OsLens : OsFill(s, l)
    \/ Decode

SpecCodec == Init /\ [][CodecNext]_vars

\* The operations on Sockets made by Socket::new, in any order
Next ==
    \/ Socket_new
    \/ \E id \in SockIds : Socket_name(id)
    \/ \E id \in SockIds, addr \in PeerAddrs : Socket_bind(id, addr)
    \/ \E id \in SockIds : Socket_listen(id, 1)
    \/ \E id \in SockIds, addr \in PeerAddrs : Socket_connect(id, addr)
    \/ \E id \in SockIds, n \in BufLens : Socket_recv(id, n)
    \/ \E id \in SockIds, n \in BufLens : Socket_recv_from(id, n)
    \/ \E id \in SockIds, n \in BufLens : Socket_send(id, n)
    \/ \E id \in SockIds, n \in BufLens, addr \in PeerAddrs : Socket_send_to(id, n, addr)
    \/ \E id \in SockIds, d \in {Receive, Send, Both} : Socket_shutdown(id, d)
    \/ \E id \in SockIds : Socket_close(id)
    \/ \E id \in SockIds : Socket_drop(id)

Spec == Init /\ [][Next]_vars

\* The operations that decode an address the OS returned
AddrNext ==
    \/ Socket_new
    \/ \E id \in SockIds : Socket_name(id)
    \/ \E id \in SockIds, n \in BufLens : Socket_recv_from(id, n)
    \/ \E id \in SockIds : Socket_accept(id)
    \/ \E id \in SockIds, flags \in AcceptFlags : Socket_accept4(id, flags)
    \/ \E id \in SockIds : Socket_drop(id)

SpecAddr == Init /\ [][AddrNext]_vars

\* Only the operations that create, hand over and destroy Socket values
OwnNext ==
    \/ Socket_new
    \/ \E id \in SockIds : Socket_accept(id)
    \/ \E id \in SockIds : Socket_raw(id)
    \/ \E id \in SockIds : Socket_into_raw_fd(id)
    \/ \E sock \in Handles : Socket_from_raw_fd(sock)
    \/ \E id \in SockIds : Socket_drop(id)

SpecOwn == Init /\ [][OwnNext]_vars

\* the raw-handle round trip of tests/socket.rs socket_as_into_from_traits:
\* new, into_raw_fd, from_raw_fd, as_raw_fd, close, and the end of a scope
RawNext ==
    \/ Socket_new
    \/ \E id \in SockIds : Socket_into_raw_fd(id)
    \/ \E sock \in Handles : Socket_from_raw_fd(sock)
    \/ \E id \in SockIds : Socket_raw(id)
    \/ \E id \in SockIds : Socket_close(id)
    \/ \E id \in SockIds : Socket_drop(id)

SpecRaw == Init /\ [][RawNext]_vars

\* threads calling Socket::new concurrently, each a step at a time, and
\* Sockets going out of scope
OnceNext ==
    \/ \E t \in Threads : new_enter(t)
    \/ \E t \in Threads : new_call_once(t)
    \/ \E t \in Threads : new_closure(t)
    \/ \E t \in Threads : new_socket(t)
    \/ \E id \in SockIds : Socket_drop(id)

SpecOnce == Init /\ [][OnceNext]_vars

\* non-blocking connects and the selects that wait for them (tests/socket.rs
\* socket_select_timeout, socket_select_connect).  A select that can return
\* does return, and a timeout that is running runs out.
WaitNext ==
    \/ Running /\ Socket_new
    \/ Running /\ \E id \in SockIds : Socket_connect_nonblocking(id, ServerAddr)
    \/ \E w \in Collections, t \in WaitTimeouts : select_enter(w, <<>>, t)
    \/ \E w \in Collections, t \in WaitTimeouts : select_enter(w, w, t)
    \/ \E h \in Handles : PeerAccepts(h)
    \/ TimeoutElapses
    \/ select_return

\* datagram sockets on the loopback network (socket_test_udp)
UdpNext ==
    \/ Socket_new
    \/ \E id \in SockIds, addr \in LoopAddrs : loopback_bind(id, addr)
    \/ \E id \in SockIds, data \in Payloads, addr \in LoopAddrs :
         loopback_send_to(id, data, addr)
    \/ \E id \in SockIds, n \in RecvLens : loopback_recv_from(id, n)
    \/ \E id \in SockIds, n \in RecvLens : loopback_recv(id, n)

SpecUdp == Init /\ [][UdpNext]_vars

\* a listener and its accepted sockets on the loopback network, with clients
\* that connect and send while the server binds, listens, accepts and
\* receives (socket_test_tcp)
TcpNext ==
    \/ Socket_new
    \/ \E id \in SockIds : loopback_bind(id, V4(<<127, 0, 0, 1>>, 1666))
    \/ \E id \in SockIds : loopback_listen(id, 1)
    \/ \E addr \in LoopAddrs, l \in Handles : PeerConnects(addr, l)
    \/ \E l \in Handles, data \in Payloads : PeerSendsEarly(l, data)
    \/ \E h \in Handles, data \in Payloads : PeerSends(h, data)
    \/ \E id \in SockIds : loopback_accept(id)
    \/ \E id \in SockIds, n \in RecvLens : loopback_recv_stream(id, n)

SpecTcp == Init /\ [][TcpNext]_vars

SpecWait == Init /\ [][WaitNext]_vars /\ WF_vars(TimeoutElapses) /\ WF_vars(select_return)

\* Sockets are made and dropped, and select waits on those alive
SelectNext ==
    \/ Socket_new
    \/ \E id \in SockIds : Socket_drop(id)
    \/ \E r \in Collections, w \in Collections, x \in Collections, t \in Timeouts :
         select(r, w, x, t)

SpecSelect == Init /\ [][SelectNext]_vars

\* select with collections at the edge of the native set's capacity
CapacityNext ==
    \/ Socket_new
    \/ \E id \in SockIds : Socket_drop(id)
    \/ \E r \in LongCollections, w \in LongCollections, x \in LongCollections :
         select(r, w, x, Some(U64(0)))

SpecCapacity == Init /\ [][CapacityNext]_vars

-----------------------------------------------------------------------------
(* Properties *)

\* the family tag of a buffer, as the host reads its first two bytes
FamilyTag(storage) ==
    IF endian = LE THEN storage[1] + 256 * storage[2] ELSE 256 * storage[1] + storage[2]

\* C1: when a Socket is dropped it calls shutdown(Both) and then close on
\* its handle, in that order, whatever shutdown answered (the close is issued
\* even when shutdown failed), and reports neither result.
C1_DropShutsDownThenCloses ==
    last.op = "drop" =>
        /\ Len(last.calls) = 2
        /\ last.calls[1].fn = "shutdown"
        /\ last.calls[1].fd = last.fd
        /\ last.calls[1].arg = 2
        /\ last.calls[2].fn = "close"
        /\ last.calls[2].fd = last.fd
        /\ last.res.kind = "Unit"

\* a drop whose shutdown failed and whose close went through
C1_Witness ==
    /\ last.op = "drop"
    /\ Len(last.calls) = 2
    /\ last.calls[1].ret = SOCKET_ERROR
    /\ last.calls[2].fn = "close"
    /\ last.calls[2].ret = 0

\* C2 (as claimed): in every state reached by new, accept, raw, into_raw_fd,
\* from_raw_fd and drop, each live Socket owns an open handle and no handle is
\* owned by two live Sockets.
C2_ExclusiveOwnership ==
    /\ \A id \in DOMAIN live : live[id] \in open
    /\ \A i, j \in DOMAIN live : i # j => live[i] # live[j]

\* C2 (amended): new, accept, raw, into_raw_fd and drop each keep exclusive
\* ownership of open handles, and so does a from_raw_fd that is given an
\* open handle no live Socket owns.
C2_OwnershipPreserved ==
    [][(/\ C2_ExclusiveOwnership
        /\ (last'.op = "from_raw_fd" => last'.fd \in open /\ last'.fd \notin Range(live)))
       => C2_ExclusiveOwnership']_vars

\* a handle released by into_raw_fd has been wrapped again while another
\* Socket is alive
C2_Witness ==
    /\ last.op = "from_raw_fd"
    /\ Cardinality(DOMAIN live) = 2
    /\ C2_ExclusiveOwnership

\* C3: a send or send_to whose OS call fails with the already-shut-down code
\* returns Ok(0); one whose OS call fails with any other code returns an error
\* carrying that code.
C3_SendShutdownIsZero ==
    (last.op \in {"send", "send_to"} /\ last.calls[1].ret = SOCKET_ERROR) =>
        IF last.calls[1].err = (IF platform = "windows" THEN 10058 ELSE 108)
        THEN last.res.kind = "Ok" /\ last.res.n = 0
        ELSE last.res.kind = "OsErr" /\ last.res.code = last.calls[1].err

C3_Witness ==
    /\ last.op = "send_to"
    /\ last.calls[1].ret = SOCKET_ERROR
    /\ last.calls[1].err = 108
    /\ last.res.kind = "Ok"
    /\ last.res.n = 0

\* C4 (as claimed): for every operation other than send and send_to whose OS
\* call returns the failure sentinel, the operation returns an error carrying
\* the raw OS error code, never a success value.  (Drop returns nothing and is
\* left out.)
C4_OnlySendTranslates ==
    (/\ last.op \notin {"none", "send", "send_to", "drop"}
     /\ Len(last.calls) > 0
     /\ last.calls[Len(last.calls)].ret = SOCKET_ERROR)
    => (last.res.kind = "OsErr" /\ last.res.code = last.calls[Len(last.calls)].err)

\* C5: decoding the native buffer produced by encoding an address A yields
\* exactly A.
C5_RoundTrip ==
    (cFrom = "encode" /\ cRes.kind # "none") => (cRes.kind = "Ok" /\ cRes.addr = cAddr)

\* an IPv6 address with port 1666 and non-trivial flow-info and scope-id has
\* made the round trip on a little-endian host
C5_Witness ==
    /\ cFrom = "encode"
    /\ cRes.kind = "Ok"
    /\ endian = LE
    /\ cAddr.fam = "V6"
    /\ cAddr.port = 1666
    /\ cAddr.flowinfo = <<258, 772>>
    /\ cAddr.scope_id = <<65535, 65535>>
    /\ cAddr.ip[1] # cAddr.ip[16]

\* C6: on both byte orders, the encoded port of P is the two bytes
\* (P div 256, P mod 256), and decoding a buffer whose port bytes are (h, l)
\* yields the port 256 * h + l.
C6_PortIsBigEndian ==
    /\ cFrom = "encode" =>
         (cStorage[3] = cAddr.port \div 256 /\ cStorage[4] = cAddr.port % 256)
    /\ cRes.kind = "Ok" => cRes.addr.port = 256 * cStorage[3] + cStorage[4]

\* port 1666 sits in the buffer as 0x06 0x82 and has been decoded
C6_Witness ==
    /\ cFrom = "encode"
    /\ cAddr.port = 1666
    /\ cStorage[3] = 6
    /\ cStorage[4] = 130
    /\ cRes.kind = "Ok"
    /\ cRes.addr.port = 1666
    /\ endian = LE

\* C7: decode returns the 4 (IPv4) or 16 (IPv6) address bytes in the order
\* they are stored, and the IPv6 flow-info and scope-id with the value the
\* host reads from the buffer, unswapped.
C7_OnlyPortIsConverted ==
    cRes.kind = "Ok" =>
        IF cRes.addr.fam = "V4"
        THEN cRes.addr.ip = <<cStorage[5], cStorage[6], cStorage[7], cStorage[8]>>
        ELSE /\ cRes.addr.ip = [i \in 1..16 |-> cStorage[8 + i]]
             /\ cRes.addr.flowinfo =
                  IF endian = LE
                  THEN <<cStorage[7] + 256 * cStorage[8], cStorage[5] + 256 * cStorage[6]>>
                  ELSE <<256 * cStorage[5] + cStorage[6], 256 * cStorage[7] + cStorage[8]>>
             /\ cRes.addr.scope_id =
                  IF endian = LE
                  THEN <<cStorage[27] + 256 * cStorage[28], cStorage[25] + 256 * cStorage[26]>>
                  ELSE <<256 * cStorage[25] + cStorage[26], 256 * cStorage[27] + cStorage[28]>>

\* a buffer the OS filled with pairwise different bytes has been decoded as
\* IPv4 on a little-endian host
C7_Witness ==
    /\ cFrom = "os"
    /\ cRes.kind = "Ok"
    /\ cRes.addr.fam = "V4"
    /\ endian = LE
    /\ cStorage[5] # cStorage[8]

\* C8: in name, recv_from, accept and accept4, decoding a buffer whose family
\* tag is neither IPv4 nor IPv6 returns the InvalidInput error, which carries
\* no OS code, and no address.
C8_UnknownFamilyIsInvalidInput ==
    (/\ last.op \in {"name", "recv_from", "accept", "accept4"}
     /\ \/ last.calls[1].ret # SOCKET_ERROR
        \/ (last.op = "recv_from" /\ platform = "windows" /\ last.calls[1].err = 10058)
     /\ FamilyTag(last.storage) \notin {2, IF platform = "windows" THEN 23 ELSE 10})
    => (last.res.kind = "InvalidInput" /\ last.res.addr = NoAddr)

\* accept4 got a child handle and a buffer tagged AF_UNIX
C8_Witness ==
    /\ last.op = "accept4"
    /\ last.calls[1].ret # SOCKET_ERROR
    /\ FamilyTag(last.storage) = 1
    /\ last.res.kind = "InvalidInput"

\* C9: an address is returned only when the reported length is at least the
\* size of the structure the family tag selects; with a smaller length the
\* decode fails (the assertion panics) and no address is returned.
C9_LengthCoversStructure ==
    cRes.kind # "none" =>
        LET need == IF FamilyTag(cStorage) = 2 THEN 16
                    ELSE IF FamilyTag(cStorage) = (IF platform = "windows" THEN 23 ELSE 10)
                    THEN 28 ELSE 0
        IN  /\ cRes.kind = "Ok" => (need > 0 /\ cLen >= need)
            /\ cLen < need => (cRes.kind = "Panic" /\ cRes.addr = NoAddr)

\* an IPv6-tagged buffer reported with the length of an IPv4 structure
C9_Witness ==
    /\ cRes.kind = "Panic"
    /\ FamilyTag(cStorage) = (IF platform = "windows" THEN 23 ELSE 10)
    /\ cLen = 16

\* C10 (as claimed): for each of the three collections of a select that
\* reached the OS call, the OS receives a null set pointer if and only if that
\* collection is empty.
C10_NullIffEmpty ==
    (last.op = "select" /\ Len(last.calls) = 1) =>
        /\ last.sel.args.readfds.null <=> last.sel.read_fds = <<>>
        /\ last.sel.args.writefds.null <=> last.sel.write_fds = <<>>
        /\ last.sel.args.exceptfds.null <=> last.sel.except_fds = <<>>

\* C11 (as claimed): for every millisecond timeout T a select hands to the
\* OS, the native interval has seconds = T div 1000 and microseconds =
\* (T mod 1000) * 1000, with no truncation or sign change, on both platforms.
C11_TimevalIsExact ==
    (last.op = "select" /\ Len(last.calls) = 1 /\ last.sel.timeout_ms.some) =>
        LET T == last.sel.timeout_ms.ms
            tv == last.sel.args.timeout
        IN  /\ ~tv.null
            /\ ~tv.tv_sec.neg
            /\ tv.tv_sec.mag = div_limbs(T, 1000, 0).q
            /\ tv.tv_usec = div_limbs(T, 1000, 0).r * 1000
            /\ 0 <= tv.tv_usec /\ tv.tv_usec < 1000000

\* C12: select hands the OS a null timeout interval if and only if the caller
\* gave no timeout, and a select without timeout never returns a ready-count
\* of 0.
C12_NullTimeoutIffNone ==
    (last.op = "select" /\ Len(last.calls) = 1) =>
        /\ last.sel.args.timeout.null <=> ~last.sel.timeout_ms.some
        /\ (~last.sel.timeout_ms.some /\ last.res.kind = "Ok") => last.res.n >= 1

\* a select without timeout on two Sockets has returned a ready-count
C12_Witness ==
    /\ last.op = "select"
    /\ ~last.sel.timeout_ms.some
    /\ last.sel.args.timeout.null
    /\ Len(last.sel.write_fds) = 2
    /\ last.res.kind = "Ok"
    /\ last.res.n = 2

\* C13: select returns an error carrying the OS code exactly when the OS call
\* returned the failure sentinel; otherwise it returns the OS ready-count
\* unchanged as a success, a count of 0 included.
C13_SelectResult ==
    (last.op = "select" /\ Len(last.calls) = 1) =>
        IF last.calls[1].ret = -1
        THEN last.res.kind = "OsErr" /\ last.res.code = last.calls[1].err
        ELSE last.res.kind = "Ok" /\ last.res.n = last.calls[1].ret

\* a select with a timeout has returned Ok(0)
C13_Witness ==
    /\ last.op = "select"
    /\ Len(last.calls) = 1
    /\ last.calls[1].ret = 0
    /\ last.sel.timeout_ms.some
    /\ last.sel.write_fds # <<>>
    /\ last.res.kind = "Ok"
    /\ last.res.n = 0

\* C16 (as claimed): on Windows select fails its capacity check, before any OS
\* call, exactly when some collection holds more than 64 descriptors; a
\* collection of at most 64 is accepted and all its handles are placed in the
\* native set.
C16_CapacityIs64 ==
    (last.op = "select" /\ platform = "windows") =>
        LET over == \/ Len(last.sel.read_fds) > 64
                    \/ Len(last.sel.write_fds) > 64
                    \/ Len(last.sel.except_fds) > 64
        IN  /\ over <=> (last.res.kind = "Panic" /\ last.calls = <<>>)
            /\ ~over =>
                 /\ Len(last.calls) = 1
                 /\ last.sel.read_fds # <<>> =>
                      last.sel.args.readfds.array = last.sel.read_fds
                 /\ last.sel.write_fds # <<>> =>
                      last.sel.args.writefds.array = last.sel.write_fds
                 /\ last.sel.except_fds # <<>> =>
                      last.sel.args.exceptfds.array = last.sel.except_fds

\* C17: a select step leaves every Socket alive with the handle it had, leaves
\* the table of open handles as it was, and makes no OS call but select.
C17_SelectOnlyReads ==
    [][last'.op = "select" =>
         /\ live' = live
         /\ open' = open
         /\ \A i \in 1..Len(last'.calls) : last'.calls[i].fn = "select"
         /\ \A h \in Range(last'.sel.read_fds) \cup Range(last'.sel.write_fds)
                     \cup Range(last'.sel.except_fds) :
                \E id \in DOMAIN live' : live'[id] = h]_vars

\* a select on two live Sockets has failed, and both still own open handles
C17_Witness ==
    /\ last.op = "select"
    /\ last.res.kind = "OsErr"
    /\ Len(last.sel.read_fds) = 2
    /\ Cardinality(DOMAIN live) = 2
    /\ \A id \in DOMAIN live : live[id] \in open

\* C19 (as claimed): name on a handle that new has just returned fails with
\* an error and returns no address; name right after a successful bind to A
\* succeeds and returns A.
C19_NameNeedsBind ==
    [][/\ (/\ last.op = "new" /\ last.res.kind = "Ok"
           /\ last'.op = "name" /\ last'.fd = last.res.n)
          => (last'.res.kind \in {"OsErr", "InvalidInput"} /\ last'.res.addr = NoAddr)
       /\ (/\ last.op = "bind" /\ last.res.kind = "Ok"
           /\ last'.op = "name" /\ last'.fd = last.fd)
          => /\ last'.res.kind = "Ok"
             /\ get_raw_addr(last'.res.addr, endian, platform).len = last.len
             /\ get_raw_addr(last'.res.addr, endian, platform).bytes
                  = SubSeq(last.storage, 1, last.len)]_vars

\* C20: into_raw_fd makes no OS call, returns the Socket's handle, leaves the
\* handle table as it was and ends the Socket; from_raw_fd of the value
\* into_raw_fd has just returned makes no OS call and yields a Socket holding
\* that handle, which raw / as_raw_fd returns; close on a Socket whose handle
\* is open succeeds.
C20_RawRoundTrip ==
    [][/\ last'.op = "into_raw_fd"
          => /\ last'.calls = <<>> /\ open' = open
             /\ last'.res = Ok(live[last'.self], NoAddr)
             /\ last'.self \notin DOMAIN live'
       /\ (last.op = "into_raw_fd" /\ last'.op = "from_raw_fd" /\ last'.fd = last.res.n)
          => /\ last'.calls = <<>> /\ open' = open
             /\ last'.self \in DOMAIN live' /\ live'[last'.self] = last.res.n
       /\ last'.op = "raw"
          => /\ last'.calls = <<>> /\ open' = open /\ live' = live
             /\ last'.res = Ok(live[last'.self], NoAddr)
       /\ (last'.op = "close" /\ last'.fd \in open)
          => last'.res.kind = "Ok" /\ live' = live]_vars

\* a handle that socket() created is still open, and owned by the one live
\* Socket, which from_raw_fd has just made
C20_Witness ==
    /\ last.op = "from_raw_fd" /\ last.fd # 0 /\ last.fd \in open
    /\ DOMAIN live = {last.self} /\ live[last.self] = last.fd

\* C18: on Windows the closure of INIT.call_once runs at most once; a thread
\* that has reached its socket() call finds the initialization complete and
\* run exactly once; the count of initializations changes only when a thread
\* inside Socket::new runs the closure, so none happens without a call of new.
C18_InitOnce ==
    /\ [](platform = "windows"
          => /\ inits <= 1
             /\ \A t \in Threads : pc[t] = "socket" => once = "COMPLETE" /\ inits = 1)
    /\ [][platform = "windows"
          => /\ inits' # inits
                => \E t \in Threads : /\ pc[t] = "closure" /\ pc'[t] = "socket"
                                      /\ inits = 0 /\ inits' = 1
             /\ (last'.op = "new" /\ last' # last) => once = "COMPLETE" /\ inits = 1]_vars

\* two threads are at their socket() call at once, after one initialization
C18_Witness ==
    /\ platform = "windows" /\ inits = 1
    /\ pc[1] = "socket" /\ pc[2] = "socket"

\* C14 (as claimed): a select with a timeout whose write set holds just one
\* handle, with a connect under way on it, returns, and it returns Ok(0)
\* unless the connection has completed.
C14_TimeoutReturnsZero ==
    \A h \in Handles :
        (/\ pending.blocked /\ pending.sel.timeout_ms.some
         /\ Range(pending.sel.write_fds) = {h}
         /\ h \in DOMAIN conn /\ conn[h] = "connecting")
        ~> (/\ ~pending.blocked /\ last.op = "select"
            /\ \/ last.res = Ok(0, NoAddr)
               \/ h \in DOMAIN conn /\ conn[h] = "connected" /\ last.res.kind = "Ok")

\* C15 (as claimed): a select without timeout whose write set holds just one
\* handle, with a connection the peer has accepted, returns Ok(1), whether
\* or not the handle is in the except set too.
C15_ConnectReturnsOne ==
    \A h \in Handles :
        (/\ pending.blocked /\ ~pending.sel.timeout_ms.some
         /\ Range(pending.sel.write_fds) = {h}
         /\ h \in DOMAIN conn /\ conn[h] = "connected")
        ~> (~pending.blocked /\ last.op = "select" /\ last.res = Ok(1, NoAddr))

\* C26 (as claimed): when accept or accept4 has not returned a Socket, no
\* handle that its OS accept call returned is still open.
C26_NoChildLeftOpen ==
    (last.op \in {"accept", "accept4"} /\ last.res.kind # "Ok")
    => \A i \in DOMAIN last.calls :
         (last.calls[i].fn \in {"accept", "accept4"} /\ last.calls[i].ret # SOCKET_ERROR)
         => last.calls[i].ret \notin open

\* C25 (as claimed): the drop of a Socket on which close() has just been
\* called issues neither shutdown nor close on its handle.
C25_CloseAtMostOnce ==
    [][(last.op = "close" /\ last'.op = "drop" /\ last'.self = last.self)
       => \A i \in DOMAIN last'.calls : last'.calls[i].fd # last.fd]_vars

\* C24: on unix the nfds argument of the OS select is 1 + the highest handle
\* of the three collections, 1 when all three are empty, and every handle of
\* a collection is below it.
C24_NfdsIsMaxPlusOne ==
    (platform = "unix" /\ last.op = "select" /\ Len(last.calls) = 1) =>
        LET inserted == Range(last.sel.read_fds) \cup Range(last.sel.write_fds)
                        \cup Range(last.sel.except_fds)
        IN  /\ last.calls[1].arg = last.sel.args.nfds
            /\ last.sel.args.nfds = (IF inserted = {} THEN 1 ELSE 1 + Max(inserted))
            /\ \A h \in inserted : h < last.sel.args.nfds

\* a unix select whose highest handle is in the write collection only
C24_Witness ==
    /\ platform = "unix" /\ last.op = "select" /\ Len(last.calls) = 1
    /\ last.sel.read_fds = <<1>> /\ last.sel.write_fds = <<1, 2>>
    /\ last.sel.args.nfds = 3

C21_AcceptedPeerAndData ==
    /\ [](\A h \in Connected :
            /\ Len(net.got[h]) <= Len(net.sent[h])
            /\ net.got[h] = SubSeq(net.sent[h], 1, Len(net.got[h])))
    /\ [][/\ \A id \in SockIds :
               loopback_accept(id)
               => /\ last'.res.kind = "Ok"
                  /\ last'.res.n = last'.calls[1].ret
                  /\ last'.res.n # last'.fd
                  /\ \E new \in DOMAIN live' \ DOMAIN live : live'[new] = last'.res.n
                  /\ last'.res.addr = Head(net.backlog[last'.fd]).from.addr
          /\ \A id \in SockIds, n \in RecvLens :
               loopback_recv_stream(id, n)
               => /\ last'.res.kind = "Ok"
                  /\ net'.got[last'.fd] =
                         net.got[last'.fd] \o SubSeq(Unread(last'.fd), 1, last'.res.n)
                  /\ SubSeq(net'.rbuf, 1, last'.res.n) =
                         SubSeq(Unread(last'.fd), 1, last'.res.n)]_vars

\* the accepted Socket has received all six bytes of two sends, the last two
\* in a read of their own, from the client bound to 127.0.0.1:5666
C21_Witness ==
    /\ last.op = "recv" /\ last.res.kind = "Ok" /\ last.res.n = 2
    /\ net.got[last.fd] = <<1, 2, 3, 4, 5, 6>>
    /\ net.sent[last.fd] = <<1, 2, 3, 4, 5, 6>>
    /\ net.peer[last.fd].addr = V4(<<127, 0, 0, 1>>, 5666)

====
